---- MODULE Spec2Model ----
(***************************************************************************)
(* Model of restflow_ai.parser.WorkflowParser (python/restflow_ai/parser.py)*)
(* and of the node model it produces (python/restflow_ai/workflow_def.py). *)
(*                                                                         *)
(* The parser is a recursive ast.NodeVisitor.  The recursion is modelled   *)
(* by an explicit stack of WorkflowParser objects: the bottom one is the   *)
(* parser created by the caller of parse(), every other one is a child     *)
(* parser created by visit_If / visit_For of the one below it.  The source *)
(* function that is compiled is produced statement by statement: every     *)
(* visit action draws the statement node it visits from a small set.       *)
(***************************************************************************)
EXTENDS Integers, Sequences, FiniteSets, TLC

\* ------------------------------------------------------------------ bounds
MaxSrc == 3
MaxDepth == 3
MaxTuple == 2

\* ------------------------------------------------ Python values and ast nodes
PyNone == [type |-> "NoneType"]
PyStr(s) == [type |-> "str", value |-> s]
PyInt(v) == [type |-> "int", value |-> v]
PyBool(b) == [type |-> "bool", value |-> b]
PyList(items) == [type |-> "list", items |-> items]
\* items: the dict as a function from its keys
PyDict(items) == [type |-> "dict", items |-> items]
EmptyDict == [k \in {} |-> ""]
EmptyList == << >>

Name(id) == [kind |-> "Name", id |-> id]
Attribute(value, attr) == [kind |-> "Attribute", value |-> value, attr |-> attr]
Constant(v) == [kind |-> "Constant", value |-> v]
\* a call without keyword arguments, and one with (keywords: << arg, value >>)
Call(func, args) ==
    [kind |-> "Call", func |-> func, args |-> args, keywords |-> << >>]
CallKw(func, args, keywords) ==
    [kind |-> "Call", func |-> func, args |-> args, keywords |-> keywords]
Tuple(elts) == [kind |-> "Tuple", elts |-> elts]
\* a string constant (Constant holds the integer ones)
StrConstant(s) == [kind |-> "Constant", value |-> s, str |-> TRUE]
IsStr(e) == "str" \in DOMAIN e
List(elts) == [kind |-> "List", elts |-> elts]
Dict(keys, values) == [kind |-> "Dict", keys |-> keys, values |-> values]
BinOp(left, right) == [kind |-> "BinOp", left |-> left, right |-> right]

Assign(target, value) == [kind |-> "Assign", target |-> target, value |-> value]
If(test, orelse) == [kind |-> "If", test |-> test, orelse |-> orelse]
For(target, iter) == [kind |-> "For", target |-> target, iter |-> iter]
Return(value) == [kind |-> "Return", value |-> value]
\* statements WorkflowParser has no visit_ method for; body: the statements
\* directly inside
Expr(value) == [kind |-> "Expr", value |-> value, body |-> << >>]
AugAssign(target, value) ==
    [kind |-> "AugAssign", target |-> target, value |-> value, body |-> << >>]
While(test, body) == [kind |-> "While", test |-> test, body |-> body]
NoNode == [kind |-> "None"]

\* ast.unparse on the expression shapes that occur
RECURSIVE Unparse(_)
RECURSIVE UnparseList(_)
RECURSIVE UnparseDict(_, _)
UnparseDict(keys, values) ==
    IF Len(keys) = 0 THEN ""
    ELSE Unparse(keys[1]) \o ": " \o Unparse(values[1])
         \o (IF Len(keys) = 1 THEN ""
             ELSE ", " \o UnparseDict(Tail(keys), Tail(values)))
UnparseList(elts) ==
    IF Len(elts) = 0 THEN ""
    ELSE IF Len(elts) = 1 THEN Unparse(elts[1])
         ELSE Unparse(elts[1]) \o ", " \o UnparseList(Tail(elts))
Unparse(e) ==
    CASE e.kind = "Name" -> e.id
      [] e.kind = "Constant" ->
            IF IsStr(e) THEN "'" \o e.value \o "'" ELSE ToString(e.value)
      [] e.kind = "List" -> "[" \o UnparseList(e.elts) \o "]"
      [] e.kind = "Dict" -> "{" \o UnparseDict(e.keys, e.values) \o "}"
      [] e.kind = "BinOp" -> Unparse(e.left) \o " + " \o Unparse(e.right)
      [] e.kind = "Attribute" -> Unparse(e.value) \o "." \o e.attr
      [] e.kind = "Call" ->
            Unparse(e.func) \o "("
              \o (IF Len(e.args) = 0 THEN "" ELSE Unparse(e.args[1]))
              \o ")"
      [] OTHER -> "?"

\* ------------------------------------------------------- workflow_def.py
StepDef(name, output, inputs, config) ==
    [type |-> "Step", name |-> name, output |-> output,
     inputs |-> inputs, config |-> config]
ParallelDef(outputs, steps) ==
    [type |-> "Parallel", outputs |-> outputs, steps |-> steps]
ConditionDef(predicate_id, predicate_source, then_branch, else_branch) ==
    [type |-> "Condition", predicate_id |-> predicate_id,
     predicate_source |-> predicate_source,
     then_branch |-> then_branch, else_branch |-> else_branch]
LoopDef(iter_var, iterable, body) ==
    [type |-> "Loop", iter_var |-> iter_var, iterable |-> iterable,
     body |-> body]
SequenceDef(steps) == [type |-> "Sequence", steps |-> steps]

\* Python truth value of an Optional[NodeDef]: None is false, a dataclass
\* instance (no __bool__, no __len__) is true whatever its fields hold.
\* (variant: a SequenceDef judged by its steps, as a list would be)
TruthyBad(x) == x.type # "NoneType" /\ (x.type = "Sequence" => Len(x.steps) > 0)
Truthy(x) == x.type # "NoneType"

RECURSIVE _node_to_dict(_)
RECURSIVE _nodes_to_dicts(_)
_nodes_to_dicts(nodes) ==
    IF Len(nodes) = 0 THEN << >>
    ELSE << _node_to_dict(Head(nodes)) >> \o _nodes_to_dicts(Tail(nodes))
_node_to_dict(n) ==
    CASE n.type = "Step" ->
            [type |-> "Step", name |-> n.name, output |-> n.output,
             inputs |-> n.inputs, config |-> n.config]
      [] n.type = "Parallel" ->
            [type |-> "Parallel", outputs |-> n.outputs,
             steps |-> _nodes_to_dicts(n.steps)]
      [] n.type = "Condition" ->
            LET result == [type |-> "Condition",
                           predicate_id |-> n.predicate_id,
                           predicate_source |-> n.predicate_source,
                           then_branch |-> _node_to_dict(n.then_branch)]
            IN  IF Truthy(n.else_branch)
                THEN [k \in DOMAIN result \cup {"else_branch"} |->
                        IF k = "else_branch"
                        THEN _node_to_dict(n.else_branch)
                        ELSE result[k]]
                ELSE result
      [] n.type = "Loop" ->
            [type |-> "Loop", iter_var |-> n.iter_var,
             iterable |-> n.iterable, body |-> _node_to_dict(n.body)]
      [] n.type = "Sequence" ->
            [type |-> "Sequence", steps |-> _nodes_to_dicts(n.steps)]

\* ---------------------------------------------------------------- state
\* stack      the WorkflowParser objects alive, outermost first; the last
\*            one is the parser whose visit() is running
\* dicts      the predicates dict objects, by reference
\* status     "running", "raised" (an exception left parse) or "done"
\* workflow_def  the WorkflowDef parse() built (PyNone before)
\* op, node   the handler step taken last and the ast node it was given
\* src_size   size of the source visited so far (statements and tuple slots)
VARIABLES stack, dicts, status, workflow_def, op, node, src_size

\* call_node    an ast.Call handed to _parse_call
\* parsed_step  the StepDef _parse_call returned for it
VARIABLES call_node, parsed_step

\* wrapper          a WorkflowWrapper (its predicates dict)
\* request, result  the arguments of the last _eval_predicate call and how it
\*                  ended (value returned or exception raised)
\* invoked          the ids of the predicates called so far, in call order
VARIABLES wrapper, request, result, invoked

parser_vars == << stack, dicts, status, workflow_def, op, node, src_size >>
call_vars == << call_node, parsed_step >>
wrapper_vars == << wrapper, request, result, invoked >>
vars == << parser_vars, call_vars, wrapper_vars >>

\* ------------------------------------------------ the statements visited
Names == {"a", "b"}
NonName == Attribute(Name("o"), "x")
CallExprs ==
    { Call(Name("f"), << Name("a") >>),
      Call(Attribute(Name("f"), "g"), << Constant(1) >>),
      Call(Call(Name("f"), << >>), << >>) }
TupleCallExprs ==
    { Call(Name("f"), << Name("a") >>),
      Call(Attribute(Name("f"), "g"), << Constant(1) >>) }
TargetElts == { Name(n) : n \in Names } \cup { NonName }
ValueElts == TupleCallExprs \cup { Constant(1) }
Max(x, y) == IF x > y THEN x ELSE y
\* the assignments of at most the given size (see Cost)
AssignNodes(size) ==
    IF size < 1 THEN {}
    ELSE { Assign(t, v) : t \in { Name("a"), NonName }, v \in CallExprs }
      \cup { Assign(Tuple(<< Name("a"), Name("b") >>), Call(Name("f"), << Name("a") >>)),
             Assign(Name("a"), Constant(1)) }
      \cup UNION { { Assign(Tuple(ts), Tuple(vs)) :
                        ts \in [1..lt[1] -> TargetElts], vs \in [1..lt[2] -> ValueElts] } :
                   lt \in { x \in (0..MaxTuple) \X (0..MaxTuple) :
                              Max(1, Max(x[1], x[2])) <= size } }
      \cup UNION { { Assign(Name("a"), Tuple(vs)) : vs \in [1..lv -> ValueElts] } :
                   lv \in { l \in 0..MaxTuple : Max(1, l) <= size } }
IfNodes == { If(Name("c"), orelse) : orelse \in BOOLEAN }
ForNodes ==
    { For(t, Name("items")) : t \in { Name("item"), Tuple(<< Name("a"), Name("b") >>) } }
ReturnNodes ==
    { Return(v) : v \in CallExprs \cup { Name(n) : n \in Names } \cup { Constant(1) } }

BareCall == Call(Name("p"), << Name("item") >>)
OtherNodes ==
    { Expr(BareCall),
      AugAssign(Name("a"), Call(Name("f"), << Name("a") >>)),
      While(Name("c"), << Expr(BareCall) >>),
      While(Name("c"), << Assign(Name("a"), Call(Name("f"), << Name("a") >>)) >>) }

\* what a statement adds to src_size
Cost(n) ==
    IF n.kind = "Assign" /\ n.value.kind = "Tuple"
    THEN Max(1, Max(Len(n.value.elts),
                    IF n.target.kind = "Tuple" THEN Len(n.target.elts) ELSE 0))
    ELSE IF n.kind \in {"Expr", "AugAssign", "While"} THEN 1 + Len(n.body)
    ELSE 1

\* ------------------------------------------------------------ the parser
\* WorkflowParser.__init__; pc and locals are the position and the local
\* variables of the visit_If / visit_For call this parser is suspended in.
NoLocals ==
    [predicate_id |-> "", predicate_source |-> "", then_branch |-> PyNone,
     iter_var |-> "", iterable |-> ""]
WorkflowParser(ref) ==
    [steps |-> EmptyList, var_to_step |-> EmptyDict, predicates |-> ref,
     predicate_counter |-> 0, pc |-> "visit", node |-> NoNode,
     locals |-> NoLocals]

Top == stack[Len(stack)]
SetTop(p) == [stack EXCEPT ![Len(stack)] = p]
Push(parent, child) == Append(SetTop(parent), child)
Pop == SubSeq(stack, 1, Len(stack) - 1)
\* the parser below the running one
Parent == stack[Len(stack) - 1]
SetParent(p) == [Pop EXCEPT ![Len(stack) - 1] = p]

DictSet(d, k, v) == [x \in DOMAIN d \cup {k} |-> IF x = k THEN v ELSE d[x]]

ParserInit ==
    /\ stack = << WorkflowParser(1) >>
    /\ dicts = [r \in 1..(MaxDepth + 1) |-> EmptyDict]
    /\ status = "running"
    /\ workflow_def = PyNone
    /\ op = "__init__"
    /\ node = NoNode
    /\ src_size = 0

Init ==
    /\ ParserInit
    /\ call_node = NoNode /\ parsed_step = PyNone
    /\ wrapper = PyNone /\ request = PyNone /\ result = PyNone
    /\ invoked = << >>

\* ------------------------------------------------------- call decomposer
RECURSIVE _get_func_name(_)
_get_func_name(n) ==
    IF n.kind = "Name" THEN n.id
    ELSE IF n.kind = "Attribute"
         THEN _get_func_name(n.value) \o "." \o n.attr
         ELSE "unknown"

RECURSIVE CallInputs(_)
CallInputs(args) ==
    IF Len(args) = 0 THEN EmptyList
    ELSE << IF Head(args).kind = "Name" THEN Head(args).id
            ELSE Unparse(Head(args)) >> \o CallInputs(Tail(args))

RECURSIVE _value_to_python(_)
RECURSIVE ListToPython(_)
RECURSIVE DictToPython(_, _)
ListToPython(elts) ==
    IF Len(elts) = 0 THEN EmptyList
    ELSE << _value_to_python(Head(elts)) >> \o ListToPython(Tail(elts))
DictToPython(keys, values) ==
    IF Len(keys) = 0 THEN EmptyDict
    ELSE LET rest == DictToPython(SubSeq(keys, 1, Len(keys) - 1),
                                  SubSeq(values, 1, Len(values) - 1))
             k == _value_to_python(keys[Len(keys)])
             v == _value_to_python(values[Len(values)])
         IN  [x \in DOMAIN rest \cup {k} |-> IF x = k THEN v ELSE rest[x]]
\* (variant: a constant keyword value kept as source text, as for inputs)
_value_to_pythonText(n) == PyStr(Unparse(n))
_value_to_python(n) ==
    IF n.kind = "Constant"
    THEN IF IsStr(n) THEN PyStr(n.value) ELSE PyInt(n.value)
    ELSE IF n.kind = "List" THEN PyList(ListToPython(n.elts))
    ELSE IF n.kind = "Dict" THEN PyDict(DictToPython(n.keys, n.values))
    ELSE PyStr(Unparse(n))

RECURSIVE CallConfig(_)
CallConfig(keywords) ==
    IF Len(keywords) = 0 THEN EmptyDict
    ELSE LET rest == CallConfig(SubSeq(keywords, 1, Len(keywords) - 1))
             kw == keywords[Len(keywords)]
             v == _value_to_python(kw[2])
         IN  [x \in DOMAIN rest \cup {kw[1]} |-> IF x = kw[1] THEN v ELSE rest[x]]

_parse_call(n) ==
    StepDef(_get_func_name(n.func), "", CallInputs(n.args), CallConfig(n.keywords))

_get_assign_target(n) ==
    IF n.target.kind = "Name" THEN n.target.id ELSE "unknown"

RECURSIVE NameIds(_)
NameIds(elts) ==
    IF Len(elts) = 0 THEN EmptyList
    ELSE (IF Head(elts).kind = "Name" THEN << Head(elts).id >> ELSE << >>)
           \o NameIds(Tail(elts))

_get_tuple_targets(t) ==
    IF t.kind = "Tuple" THEN NameIds(t.elts) ELSE EmptyList

\* --------------------------------------------------------- visit_Assign
\* The loop over node.value.elts, from index i (1-based) on.  outputs[i]
\* with i beyond the list raises IndexError and ends the loop with what was
\* bound so far.
\* (variant: every call bound to outputs[0] instead of outputs[i])
RECURSIVE TupleLoopFirstOutput(_, _, _, _, _)
TupleLoopFirstOutput(elts, i, outputs, parallel_steps, var_to_step) ==
    IF i > Len(elts)
    THEN [raised |-> FALSE, parallel_steps |-> parallel_steps,
          var_to_step |-> var_to_step]
    ELSE IF elts[i].kind = "Call"
         THEN IF Len(outputs) = 0
              THEN [raised |-> TRUE, parallel_steps |-> parallel_steps,
                    var_to_step |-> var_to_step]
              ELSE LET step == [_parse_call(elts[i]) EXCEPT !.output = outputs[1]]
                   IN  TupleLoopFirstOutput(elts, i + 1, outputs,
                                 Append(parallel_steps, step),
                                 DictSet(var_to_step, outputs[1], step.name))
         ELSE TupleLoopFirstOutput(elts, i + 1, outputs, parallel_steps, var_to_step)
RECURSIVE TupleLoop(_, _, _, _, _)
TupleLoop(elts, i, outputs, parallel_steps, var_to_step) ==
    IF i > Len(elts)
    THEN [raised |-> FALSE, parallel_steps |-> parallel_steps,
          var_to_step |-> var_to_step]
    ELSE IF elts[i].kind = "Call"
         THEN IF i > Len(outputs)
              THEN [raised |-> TRUE, parallel_steps |-> parallel_steps,
                    var_to_step |-> var_to_step]
              ELSE LET step == [_parse_call(elts[i]) EXCEPT !.output = outputs[i]]
                   IN  TupleLoop(elts, i + 1, outputs,
                                 Append(parallel_steps, step),
                                 DictSet(var_to_step, outputs[i], step.name))
         ELSE TupleLoop(elts, i + 1, outputs, parallel_steps, var_to_step)

\* self.var_to_step[step.output] = step.name
\* (variant: key and value swapped)
BindStepSwapped(var_to_step, step) == DictSet(var_to_step, step.name, step.output)
\* (variant: a name already bound keeps its first producer)
BindStepKeepFirst(var_to_step, step) ==
    IF step.output \in DOMAIN var_to_step THEN var_to_step
    ELSE DictSet(var_to_step, step.output, step.name)
BindStep(var_to_step, step) == DictSet(var_to_step, step.output, step.name)

\* visit_Assign on parser self: the parser afterwards, and whether it raised
visit_Assign(self, n) ==
    IF n.value.kind = "Call"
    THEN LET step == [_parse_call(n.value) EXCEPT !.output = _get_assign_target(n)]
         IN  [raised |-> FALSE,
              self |-> [self EXCEPT
                          !.var_to_step = BindStep(@, step),
                          !.steps = Append(@, step)]]
    ELSE IF n.value.kind = "Tuple"
         THEN LET outputs == _get_tuple_targets(n.target)
                  r == TupleLoop(n.value.elts, 1, outputs, EmptyList,
                                 self.var_to_step)
              IN  [raised |-> r.raised,
                   self |-> [self EXCEPT
                               !.var_to_step = r.var_to_step,
                               !.steps = IF ~r.raised /\ Len(r.parallel_steps) > 0
                                         THEN Append(@, ParallelDef(outputs, r.parallel_steps))
                                         ELSE @]]
         ELSE [raised |-> FALSE, self |-> self]

\* --------------------------------------------------------- visit_Return
visit_Return(self, n) ==
    IF n.value.kind = "Call"
    THEN LET step == [_parse_call(n.value) EXCEPT !.output = "__return__"]
         IN  [self EXCEPT !.steps = Append(@, step)]
    ELSE self

\* ----------------------------------------- ast.NodeVisitor.generic_visit
\* visit() calls visit_<class> when the parser has it and generic_visit
\* otherwise; generic_visit visits the child nodes: only statements among
\* them reach a handler (the statements generated here for such a body are
\* assignments, returns and statements without a handler).
RECURSIVE visit(_, _)
RECURSIVE VisitAll(_, _)
VisitAll(self, body) ==
    IF Len(body) = 0 THEN [raised |-> FALSE, self |-> self]
    ELSE LET r == visit(self, Head(body))
         IN  IF r.raised THEN r ELSE VisitAll(r.self, Tail(body))
generic_visit(self, n) == VisitAll(self, n.body)
visit(self, n) ==
    IF n.kind = "Assign" THEN visit_Assign(self, n)
    ELSE IF n.kind = "Return"
         THEN [raised |-> FALSE, self |-> visit_Return(self, n)]
         ELSE generic_visit(self, n)

\* ------------------------------------------------------ _find_return_var
RECURSIVE FindReturnVar(_)
FindReturnVar(steps) ==
    IF Len(steps) = 0 THEN PyNone
    ELSE LET step == steps[Len(steps)]
         IN  IF step.type = "Step" /\ step.output = "__return__"
             THEN PyStr("__return__")
             ELSE IF step.type = "Step"
                  THEN PyStr(step.output)
                  ELSE FindReturnVar(SubSeq(steps, 1, Len(steps) - 1))
_find_return_var(self) == FindReturnVar(self.steps)

\* --------------------------------------------------------------- actions
Running == status = "running" /\ Top.pc = "visit"

VisitAssign ==
    /\ Running
    /\ \E n \in AssignNodes(MaxSrc - src_size) :
          /\ LET r == visit_Assign(Top, n)
             IN  /\ stack' = SetTop(r.self)
                 /\ status' = IF r.raised THEN "raised" ELSE status
          /\ node' = n
          /\ src_size' = src_size + Cost(n)
    /\ op' = "visit_Assign"
    /\ UNCHANGED << dicts, workflow_def >>
    /\ UNCHANGED << call_vars, wrapper_vars >>

VisitReturn ==
    /\ Running
    /\ \E n \in ReturnNodes :
          /\ src_size + Cost(n) <= MaxSrc
          /\ stack' = SetTop(visit_Return(Top, n))
          /\ node' = n
          /\ src_size' = src_size + Cost(n)
    /\ op' = "visit_Return"
    /\ UNCHANGED << dicts, status, workflow_def >>
    /\ UNCHANGED << call_vars, wrapper_vars >>

\* visit() of a statement without a handler: generic_visit
VisitOther ==
    /\ Running
    /\ \E n \in OtherNodes :
          /\ src_size + Cost(n) <= MaxSrc
          /\ LET r == generic_visit(Top, n)
             IN  /\ stack' = SetTop(r.self)
                 /\ status' = IF r.raised THEN "raised" ELSE status
          /\ node' = n
          /\ src_size' = src_size + Cost(n)
    /\ op' = "generic_visit"
    /\ UNCHANGED << dicts, workflow_def >>
    /\ UNCHANGED << call_vars, wrapper_vars >>

\* visit_If up to the loop over node.body: the id is issued and then_parser
\* is created (its own fresh predicates dict is dropped for the parent's)
VisitIf ==
    /\ Running
    /\ Len(stack) < MaxDepth
    /\ \E n \in IfNodes :
          /\ src_size + Cost(n) <= MaxSrc
          /\ LET self == [Top EXCEPT
                   !.locals = [NoLocals EXCEPT
                      !.predicate_id = "pred_" \o ToString(Top.predicate_counter),
                      !.predicate_source = Unparse(n.test)],
                   !.predicate_counter = @ + 1,
                   !.pc = "then",
                   !.node = n]
                 then_parser == [WorkflowParser(self.predicates) EXCEPT
                   !.predicate_counter = self.predicate_counter]
             IN  stack' = Push(self, then_parser)
          /\ node' = n
          /\ src_size' = src_size + Cost(n)
    /\ dicts' = [dicts EXCEPT ![Len(stack) + 1] = EmptyDict]
    /\ op' = "visit_If"
    /\ UNCHANGED << status, workflow_def >>
    /\ UNCHANGED << call_vars, wrapper_vars >>

\* self.predicate_counter = then_parser.predicate_counter (and the same
\* after the else branch): self afterwards
\* (variant: the child's counter is not copied back)
ThreadCounterDropped(self, child) == self
ThreadCounter(self, child) ==
    [self EXCEPT !.predicate_counter = child.predicate_counter]

\* visit_If from the end of the loop over node.body: either else_parser is
\* created, or (no orelse) the ConditionDef is appended
IfThenDone ==
    /\ Running
    /\ Len(stack) > 1
    /\ Parent.pc = "then"
    /\ LET then_branch == SequenceDef(Top.steps)
           self == ThreadCounter(Parent, Top)
       IN  IF self.node.orelse
           THEN LET else_parser == [WorkflowParser(self.predicates) EXCEPT
                       !.predicate_counter = self.predicate_counter]
                IN  stack' = Append(
                       SetParent([self EXCEPT !.pc = "else",
                                              !.locals.then_branch = then_branch]),
                       else_parser)
           ELSE stack' = SetParent([self EXCEPT
                   !.steps = Append(@, ConditionDef(self.locals.predicate_id,
                                                    self.locals.predicate_source,
                                                    then_branch, PyNone)),
                   !.pc = "visit", !.node = NoNode, !.locals = NoLocals])
    /\ node' = Parent.node
    /\ dicts' = IF Parent.node.orelse
                THEN [dicts EXCEPT ![Len(stack)] = EmptyDict]
                ELSE dicts
    /\ op' = "visit_If.then"
    /\ UNCHANGED << status, workflow_def, src_size >>
    /\ UNCHANGED << call_vars, wrapper_vars >>

\* visit_If from the end of the loop over node.orelse
IfElseDone ==
    /\ Running
    /\ Len(stack) > 1
    /\ Parent.pc = "else"
    /\ LET else_branch == SequenceDef(Top.steps)
           self == ThreadCounter(Parent, Top)
       IN  stack' = SetParent([self EXCEPT
               !.steps = Append(@, ConditionDef(self.locals.predicate_id,
                                                self.locals.predicate_source,
                                                self.locals.then_branch,
                                                else_branch)),
               !.pc = "visit", !.node = NoNode, !.locals = NoLocals])
    /\ node' = Parent.node
    /\ op' = "visit_If.else"
    /\ UNCHANGED << dicts, status, workflow_def, src_size >>
    /\ UNCHANGED << call_vars, wrapper_vars >>

\* visit_For up to the loop over node.body: body_parser is a fresh parser
VisitFor ==
    /\ Running
    /\ Len(stack) < MaxDepth
    /\ \E n \in ForNodes :
          /\ src_size + Cost(n) <= MaxSrc
          /\ LET self == [Top EXCEPT
                   !.locals = [NoLocals EXCEPT
                      !.iter_var = IF n.target.kind = "Name"
                                   THEN n.target.id ELSE "item",
                      !.iterable = Unparse(n.iter)],
                   !.pc = "for",
                   !.node = n]
                 body_parser == WorkflowParser(Len(stack) + 1)
             IN  stack' = Push(self, body_parser)
          /\ node' = n
          /\ src_size' = src_size + Cost(n)
    /\ dicts' = [dicts EXCEPT ![Len(stack) + 1] = EmptyDict]
    /\ op' = "visit_For"
    /\ UNCHANGED << status, workflow_def >>
    /\ UNCHANGED << call_vars, wrapper_vars >>

\* visit_For from the end of the loop over node.body
ForDone ==
    /\ Running
    /\ Len(stack) > 1
    /\ Parent.pc = "for"
    /\ stack' = SetParent([Parent EXCEPT
           !.steps = Append(@, LoopDef(Parent.locals.iter_var,
                                       Parent.locals.iterable,
                                       SequenceDef(Top.steps))),
           !.pc = "visit", !.node = NoNode, !.locals = NoLocals])
    /\ node' = Parent.node
    /\ op' = "visit_For.body"
    /\ UNCHANGED << dicts, status, workflow_def, src_size >>
    /\ UNCHANGED << call_vars, wrapper_vars >>

\* parse() after the loop over func_def.body.  The body of the WorkflowDef
\* is SequenceDef(steps=self.steps): it holds the parser's own list, so it is
\* read from the parser (WorkflowBody) rather than copied.
ParseDone ==
    /\ Running
    /\ Len(stack) = 1
    /\ workflow_def' = [type |-> "WorkflowDef", name |-> "w",
                        return_var |-> _find_return_var(Top)]
    /\ status' = "done"
    /\ op' = "parse"
    /\ UNCHANGED << stack, dicts, node, src_size >>
    /\ UNCHANGED << call_vars, wrapper_vars >>

WorkflowBody == SequenceDef(stack[1].steps)
\* the second component of what parse() returns
ReturnedPredicates == dicts[stack[1].predicates]

Next ==
    \/ VisitAssign
    \/ VisitReturn
    \/ VisitOther
    \/ VisitIf
    \/ IfThenDone
    \/ IfElseDone
    \/ VisitFor
    \/ ForDone
    \/ ParseDone

Spec == Init /\ [][Next]_vars

\* ------------------------------------------- parse() on the same instance
\* parse() called again on the parser that already returned a WorkflowDef
\* (for another function): the loop over func_def.body starts anew on the
\* same self.steps, var_to_step and predicate_counter, which parse() never
\* resets.  workflow_def keeps the WorkflowDef returned before until the
\* second parse() returns.
ParseAgain ==
    /\ status = "done"
    /\ status' = "running"
    /\ op' = "parse.again"
    /\ node' = NoNode
    /\ UNCHANGED << stack, dicts, workflow_def, src_size >>
    /\ UNCHANGED << call_vars, wrapper_vars >>

NextReparse == Next \/ ParseAgain
SpecReparse == Init /\ [][NextReparse]_vars

\* ------------------------------------------------- _parse_call on its own
\* The calls handed to _parse_call: a callee, up to MaxArgs positional
\* arguments and up to MaxKw keyword arguments (distinct names, as the
\* grammar requires).
MaxArgs == 2
MaxKw == 2
CallFuncs == { Name("f"), Attribute(Name("f"), "g") }
PosArgs ==
    { Name("a"), Constant(1), StrConstant("s"),
      BinOp(Name("a"), Constant(1)), List(<< Constant(1) >>) }
KwNames == {"k", "l"}
KwValues ==
    { Constant(2), StrConstant("s"), Name("b"), BinOp(Name("a"), Constant(1)),
      List(<< Constant(1), StrConstant("s") >>),
      List(<< List(<< Constant(1) >>) >>),
      List(<< Name("a") >>),
      Dict(<< StrConstant("a") >>, << Constant(1) >>),
      Dict(<< StrConstant("a") >>, << List(<< Constant(1) >>) >>),
      Dict(<< StrConstant("a"), StrConstant("a") >>, << Constant(1), Constant(2) >>),
      Dict(<< StrConstant("a") >>, << Name("b") >>) }
SeqsUpTo(S, n) == UNION { [1..k -> S] : k \in 0..n }
KeywordSeqs ==
    { kws \in SeqsUpTo(KwNames \X KwValues, MaxKw) :
        \A i, j \in DOMAIN kws : i # j => kws[i][1] # kws[j][1] }
CallNodes ==
    { CallKw(f, args, kws) :
        f \in CallFuncs, args \in SeqsUpTo(PosArgs, MaxArgs), kws \in KeywordSeqs }

InitCall ==
    /\ ParserInit
    /\ call_node \in CallNodes
    /\ parsed_step = PyNone
    /\ wrapper = PyNone /\ request = PyNone /\ result = PyNone
    /\ invoked = << >>

ParseCall ==
    /\ parsed_step = PyNone
    /\ parsed_step' = _parse_call(call_node)
    /\ UNCHANGED << parser_vars, call_node, wrapper_vars >>

NextCall == ParseCall
SpecCall == InitCall /\ [][NextCall]_vars

\* ---------------------------------------------------- WorkflowWrapper
\* The predicates dict a WorkflowWrapper is constructed with maps ids to
\* callables from a context dict to a bool; the contexts are {"x": b}.
MaxEvals == 2
PredicateIds == {"pred_0", "pred_1"}
RequestIds == PredicateIds \cup {"pred_2"}
Contexts == { [x |-> b] : b \in BOOLEAN }
Callables == [Contexts -> BOOLEAN]
PredicateDicts == UNION { [ids -> Callables] : ids \in SUBSET PredicateIds }

\* __init__: self.predicates = predicates or {}
WorkflowWrapper(predicates) ==
    [predicates |-> IF predicates.type = "NoneType" \/ DOMAIN predicates.items = {}
                    THEN EmptyDict
                    ELSE predicates.items]

\* (variant: an unknown id evaluates to False instead of raising)
_eval_predicateDefaultFalse(self, predicate_id, context) ==
    IF predicate_id \notin DOMAIN self.predicates
    THEN [raised |-> "", value |-> PyBool(FALSE), called |-> << >>]
    ELSE [raised |-> "", value |-> PyBool(self.predicates[predicate_id][context]),
          called |-> << predicate_id >>]
\* raised: the exception raised ("" when none); called: the predicates called
_eval_predicate(self, predicate_id, context) ==
    IF predicate_id \notin DOMAIN self.predicates
    THEN [raised |-> "ValueError", value |-> PyNone, called |-> << >>]
    ELSE [raised |-> "", value |-> PyBool(self.predicates[predicate_id][context]),
          called |-> << predicate_id >>]

InitWrapper ==
    /\ ParserInit
    /\ call_node = NoNode /\ parsed_step = PyNone
    /\ wrapper \in { WorkflowWrapper(a) :
                      a \in {PyNone} \cup { PyDict(d) : d \in PredicateDicts } }
    /\ request = PyNone /\ result = PyNone
    /\ invoked = << >>

EvalPredicate ==
    /\ Len(invoked) < MaxEvals
    /\ \E id \in RequestIds, context \in Contexts :
          LET r == _eval_predicate(wrapper, id, context)
          IN  /\ request' = [predicate_id |-> id, context |-> context]
              /\ result' = [raised |-> r.raised, value |-> r.value]
              /\ invoked' = invoked \o r.called
    /\ UNCHANGED << parser_vars, call_vars, wrapper >>

NextWrapper == EvalPredicate
SpecWrapper == InitWrapper /\ [][NextWrapper]_vars

\* ------------------------------------------------------------ tree helpers
\* every node of a list of nodes, nested ones included, in source order
RECURSIVE NodesIn(_)
NodesIn(nodes) ==
    IF Len(nodes) = 0 THEN << >>
    ELSE LET n == Head(nodes)
             inner ==
               CASE n.type = "Parallel" -> NodesIn(n.steps)
                 [] n.type = "Condition" ->
                       NodesIn(n.then_branch.steps)
                         \o (IF n.else_branch.type = "NoneType" THEN << >>
                             ELSE NodesIn(n.else_branch.steps))
                 [] n.type = "Loop" -> NodesIn(n.body.steps)
                 [] OTHER -> << >>
         IN  << n >> \o inner \o NodesIn(Tail(nodes))

LastOf(seq) == seq[Len(seq)]

\* the nodes of the compiled workflow
WorkflowNodes == NodesIn(WorkflowBody.steps)
\* the nodes every parser on the stack holds so far
RECURSIVE StackNodes(_)
StackNodes(k) ==
    IF k = 0 THEN << >>
    ELSE StackNodes(k - 1) \o NodesIn(stack[k].steps)
             \o (IF stack[k].locals.then_branch.type = "NoneType" THEN << >>
                 ELSE NodesIn(stack[k].locals.then_branch.steps))
EmittedNodes == StackNodes(Len(stack))

\* ================================================================ claims

\* C1: in the WorkflowDef parse() returns, the predicate_id values of the
\* Condition nodes, at every depth, are pairwise distinct.
C1_PredicateIdsDistinct ==
    status = "done" =>
        \A i, j \in 1..Len(WorkflowNodes) :
            ( /\ i # j
              /\ WorkflowNodes[i].type = "Condition"
              /\ WorkflowNodes[j].type = "Condition" )
            => WorkflowNodes[i].predicate_id # WorkflowNodes[j].predicate_id

\* C2: every predicate_id in a Condition node of the returned WorkflowDef is
\* a key of the predicates map parse() returns with it.
C2_EmittedIdsRegistered ==
    status = "done" =>
        \A i \in 1..Len(WorkflowNodes) :
            WorkflowNodes[i].type = "Condition"
            => WorkflowNodes[i].predicate_id \in DOMAIN ReturnedPredicates

\* the shapes of tuple assignment the claims speak of
IsTupleAssign(n) ==
    /\ n.kind = "Assign"
    /\ n.target.kind = "Tuple"
    /\ n.value.kind = "Tuple"
    /\ Len(n.target.elts) = Len(n.value.elts)
    /\ \A i \in 1..Len(n.target.elts) : n.target.elts[i].kind = "Name"
HasCall(n) == \E i \in 1..Len(n.value.elts) : n.value.elts[i].kind = "Call"
IsCallOnlyTupleAssign(n) ==
    /\ IsTupleAssign(n)
    /\ \A i \in 1..Len(n.value.elts) : n.value.elts[i].kind = "Call"

\* C3: the ParallelDef emitted for a tuple assignment of N plain names to N
\* elements (all calls, or calls mixed with other expressions) has as many
\* outputs as steps, and its i-th step has the i-th output as its output.
C3_ParallelOutputsMatchSteps ==
    ( /\ op = "visit_Assign"
      /\ IsTupleAssign(node)
      /\ HasCall(node) )
    => LET p == LastOf(Top.steps)
       IN  /\ p.type = "Parallel"
           /\ Len(p.outputs) = Len(p.steps)
           /\ \A i \in 1..Len(p.steps) :
                 i <= Len(p.outputs) /\ p.steps[i].output = p.outputs[i]

\* what a call-only tuple assignment is to emit: outputs and steps in source
\* order, the i-th step bound to the i-th target
TargetNames(n) == [i \in 1..Len(n.target.elts) |-> n.target.elts[i].id]
TupleSteps(n) ==
    [i \in 1..Len(n.value.elts) |->
        [_parse_call(n.value.elts[i]) EXCEPT !.output = n.target.elts[i].id]]
AppendsParallel(n) ==
    /\ status' = "running"
    /\ Len(stack') = Len(stack)
    /\ Top'.steps = Append(Top.steps, ParallelDef(TargetNames(n), TupleSteps(n)))

\* C4 as stated: a tuple assignment of N plain names to N calls appends one
\* ParallelDef (outputs and steps in source order) and records every target
\* as produced by its own step.  (Stated for N >= 1; for N = 0 nothing is
\* appended at all.)
C4_TupleAssignAsStated ==
    [][ ( /\ op' = "visit_Assign"
          /\ IsCallOnlyTupleAssign(node')
          /\ Len(node'.target.elts) >= 1 )
        => /\ AppendsParallel(node')
           /\ \A i \in 1..Len(node'.target.elts) :
                 /\ TargetNames(node')[i] \in DOMAIN Top'.var_to_step
                 /\ Top'.var_to_step[TargetNames(node')[i]]
                       = TupleSteps(node')[i].name ]_vars

\* C4 amended: for N >= 1 the ParallelDef is appended as stated, and every
\* target name is recorded as produced by the last step of the tuple that
\* has it as output (its own step when the target names are distinct).
C4_TupleAssignParallel ==
    [][ ( /\ op' = "visit_Assign"
          /\ IsCallOnlyTupleAssign(node')
          /\ Len(node'.target.elts) >= 1 )
        => /\ AppendsParallel(node')
           /\ \A i \in 1..Len(node'.target.elts) :
                 LET t == TargetNames(node')[i]
                     last == CHOOSE j \in 1..Len(node'.target.elts) :
                               /\ TargetNames(node')[j] = t
                               /\ \A k \in 1..Len(node'.target.elts) :
                                     TargetNames(node')[k] = t => k <= j
                 IN  /\ t \in DOMAIN Top'.var_to_step
                     /\ Top'.var_to_step[t] = TupleSteps(node')[last].name ]_vars

\* C4 witness: a two-call tuple assignment to distinct names was compiled.
C4_Witness ==
    /\ op = "visit_Assign"
    /\ IsCallOnlyTupleAssign(node)
    /\ Len(node.target.elts) = 2
    /\ node.target.elts[1].id # node.target.elts[2].id
    /\ LastOf(Top.steps).type = "Parallel"
    /\ Len(LastOf(Top.steps).steps) = 2

\* C5: an assignment whose value is one call appends exactly one StepDef; its
\* output is the target name (the placeholder when the target is no plain
\* name) and the output is recorded as produced by the step's callee name.
C5_SingleAssignStep ==
    [][ ( op' = "visit_Assign" /\ node'.value.kind = "Call" )
        => /\ status' = "running"
           /\ Len(stack') = Len(stack)
           /\ Len(Top'.steps) = Len(Top.steps) + 1
           /\ SubSeq(Top'.steps, 1, Len(Top.steps)) = Top.steps
           /\ LET step == LastOf(Top'.steps)
              IN  /\ step.type = "Step"
                  /\ step.name = _get_func_name(node'.value.func)
                  /\ node'.target.kind = "Name" => step.output = node'.target.id
                  /\ node'.target.kind # "Name" => step.output = "unknown"
                  /\ step.output \in DOMAIN Top'.var_to_step
                  /\ Top'.var_to_step[step.output] = step.name ]_vars

\* C5 witness: a call was assigned to a plain name inside a branch or loop
\* body that already holds a node.
C5_Witness ==
    /\ op = "visit_Assign"
    /\ node.value.kind = "Call"
    /\ node.target.kind = "Name"
    /\ Len(stack) > 1
    /\ Len(Top.steps) = 2
    /\ LastOf(Top.steps).output = node.target.id

\* a Step that a return-of-call statement emitted
IsReturnStep(n) == n.type = "Step" /\ n.output = "__return__"
\* every return-of-call step ends its sequence (no statement follows a return)
RECURSIVE ReturnsEndSequences(_)
ReturnsEndSequences(nodes) ==
    /\ \A i \in 1..Len(nodes) : IsReturnStep(nodes[i]) => i = Len(nodes)
    /\ \A i \in 1..Len(nodes) :
          CASE nodes[i].type = "Condition" ->
                  /\ ReturnsEndSequences(nodes[i].then_branch.steps)
                  /\ nodes[i].else_branch.type # "NoneType"
                        => ReturnsEndSequences(nodes[i].else_branch.steps)
            [] nodes[i].type = "Loop" -> ReturnsEndSequences(nodes[i].body.steps)
            [] OTHER -> TRUE

\* C6: a return of a call, at the top level or in a branch or loop body,
\* appends a Step with output "__return__" to the sequence being compiled and
\* the WorkflowDef has return_var "__return__".
C6_ReturnCallSetsMarker ==
    /\ ( op = "visit_Return" /\ node.value.kind = "Call" )
          => IsReturnStep(LastOf(Top.steps))
    /\ ( /\ status = "done"
         /\ ReturnsEndSequences(WorkflowBody.steps)
         /\ \E i \in 1..Len(WorkflowNodes) : IsReturnStep(WorkflowNodes[i]) )
          => workflow_def.return_var = PyStr("__return__")

\* C7: when the function ends in a return of a bare name that an earlier
\* top-level node bound, the WorkflowDef has that name as return_var.
C7_ReturnNameIsReturnVar ==
    ( /\ status = "done"
      /\ node.kind = "Return"
      /\ node.value.kind = "Name"
      /\ node.value.id \in DOMAIN stack[1].var_to_step )
    => workflow_def.return_var = PyStr(node.value.id)

\* the output bound last by a Step or a Parallel of a sequence, PyNone when
\* the sequence binds none
RECURSIVE LastBound(_)
LastBound(nodes) ==
    IF Len(nodes) = 0 THEN PyNone
    ELSE LET n == LastOf(nodes)
         IN  IF n.type = "Step" THEN PyStr(n.output)
             ELSE IF n.type = "Parallel" /\ Len(n.steps) > 0
                  THEN PyStr(LastOf(n.steps).output)
                  ELSE LastBound(SubSeq(nodes, 1, Len(nodes) - 1))

\* C8: with no return-of-call step emitted, return_var is the output bound
\* last by a Step or Parallel of the top-level sequence, and None exactly
\* when the top-level sequence binds no output.
C8_ReturnVarIsLastTopLevelBinding ==
    ( /\ status = "done"
      /\ \A i \in 1..Len(WorkflowNodes) : ~IsReturnStep(WorkflowNodes[i]) )
    => workflow_def.return_var = LastBound(WorkflowBody.steps)

\* C9: the ConditionDef compiled from an if statement has an else_branch, and
\* its serialized record an "else_branch" key, exactly when the statement has
\* an else clause; every serialized Condition has the key exactly when the
\* node has an else_branch.
C9_ElseBranchIffElseClause ==
    /\ ( op = "visit_If.else" \/ (op = "visit_If.then" /\ ~node.orelse) )
          => LET c == LastOf(Top.steps)
             IN  /\ c.type = "Condition"
                 /\ (c.else_branch.type # "NoneType") <=> node.orelse
                 /\ ("else_branch" \in DOMAIN _node_to_dict(c)) <=> node.orelse
    /\ ( op = "visit_If.then" /\ node.orelse ) => Top.pc = "visit" /\ Parent.pc = "else"
    /\ \A i \in 1..Len(EmittedNodes) :
          EmittedNodes[i].type = "Condition"
          => ( "else_branch" \in DOMAIN _node_to_dict(EmittedNodes[i])
                  <=> EmittedNodes[i].else_branch.type # "NoneType" )

\* C9 witness: an if with an else clause whose body emitted no node was
\* compiled, inside another scope.
C9_Witness ==
    /\ op = "visit_If.else"
    /\ node.orelse
    /\ LastOf(Top.steps).type = "Condition"
    /\ LastOf(Top.steps).else_branch.type = "Sequence"
    /\ Len(LastOf(Top.steps).else_branch.steps) = 0
    /\ Len(LastOf(Top.steps).then_branch.steps) > 0

\* C10: visiting an assignment, if, for or return of any shape never raises.
C10_VisitNeverRaises == status # "raised"


\* C11: after `for item in items:` whose body is the bare call statement
\* p(item), the sequence ends with a Loop node with iter_var "item" and
\* iterable "items" whose body is the one-node sequence Step p with inputs
\* ["item"]: the bare call statement appends that Step to the body
\* parser's steps, and the Loop node carries the body parser's steps.
InLoopBody == Len(stack) > 1 /\ Parent.pc = "for"
C11_ForLoopBodyHoldsCallStep ==
    /\ (op = "generic_visit" /\ node = Expr(BareCall) /\ InLoopBody)
          => /\ Len(Top.steps) >= 1
             /\ LastOf(Top.steps) = StepDef("p", "", << "item" >>, EmptyDict)
    /\ (op = "visit_For.body" /\ node.target.kind = "Name")
          => /\ Len(Top.steps) >= 1
             /\ LastOf(Top.steps).type = "LoopDef"
             /\ LastOf(Top.steps).iter_var = node.target.id
             /\ LastOf(Top.steps).iterable = Unparse(node.iter)

\* C14: visiting a statement kind the parser has no handler for leaves the
\* parser as it was: no node emitted, no binding, no predicate id issued,
\* no exception.
C14_UnhandledStatementEmitsNothing ==
    [][op' = "generic_visit" => (stack' = stack /\ status' = status)]_vars

\* C12: _eval_predicate with an id that is no key of the wrapper's
\* predicates raises ValueError and calls no predicate; with a registered
\* id it calls that predicate once and returns its value on the context.
C12_EvalPredicate ==
    [][LET id == request'.predicate_id
       IN  IF id \in DOMAIN wrapper.predicates
           THEN /\ result'.raised = ""
                /\ result'.value = PyBool(wrapper.predicates[id][request'.context])
                /\ invoked' = Append(invoked, id)
           ELSE /\ result'.raised = "ValueError"
                /\ invoked' = invoked]_vars
\* a registered predicate was evaluated, then an unregistered id was refused
C12_Witness ==
    /\ wrapper # PyNone
    /\ result # PyNone
    /\ result.raised = "ValueError"
    /\ request.predicate_id \notin DOMAIN wrapper.predicates
    /\ Len(invoked) >= 1
    /\ invoked[1] \in DOMAIN wrapper.predicates

\* C13 (as stated): _parse_call returns a StepDef with empty output; each
\* positional argument becomes its name when a bare name and its source
\* text otherwise; each keyword value becomes a native literal when it is a
\* constant, a list of literals or a mapping of literals (recursively), and
\* its source text otherwise.
RECURSIVE IsLiteral(_)
IsLiteral(e) ==
    \/ e.kind = "Constant"
    \/ e.kind = "List" /\ \A i \in DOMAIN e.elts : IsLiteral(e.elts[i])
    \/ e.kind = "Dict" /\ \A i \in DOMAIN e.keys :
                              IsLiteral(e.keys[i]) /\ IsLiteral(e.values[i])
RECURSIVE Folded(_)
Folded(e) ==
    IF e.kind = "Constant"
    THEN IF IsStr(e) THEN PyStr(e.value) ELSE PyInt(e.value)
    ELSE IF e.kind = "List"
         THEN PyList([i \in DOMAIN e.elts |-> Folded(e.elts[i])])
    ELSE IF e.kind = "Dict"
         THEN PyDict([k \in { Folded(e.keys[i]) : i \in DOMAIN e.keys } |->
                        LET last == CHOOSE i \in DOMAIN e.keys :
                                      /\ Folded(e.keys[i]) = k
                                      /\ \A j \in DOMAIN e.keys :
                                            Folded(e.keys[j]) = k => j <= i
                        IN  Folded(e.values[last])])
    ELSE PyStr(Unparse(e))
PositionalAsText ==
    /\ parsed_step.output = ""
    /\ parsed_step.name = _get_func_name(call_node.func)
    /\ Len(parsed_step.inputs) = Len(call_node.args)
    /\ \A i \in DOMAIN call_node.args :
          parsed_step.inputs[i] =
              IF call_node.args[i].kind = "Name" THEN call_node.args[i].id
              ELSE Unparse(call_node.args[i])
    /\ DOMAIN parsed_step.config = { call_node.keywords[i][1] : i \in DOMAIN call_node.keywords }
C13_CallDecomposedAsStated ==
    parsed_step # PyNone =>
        /\ PositionalAsText
        /\ \A i \in DOMAIN call_node.keywords :
              LET kw == call_node.keywords[i]
              IN  parsed_step.config[kw[1]] =
                      IF IsLiteral(kw[2]) THEN Folded(kw[2]) ELSE PyStr(Unparse(kw[2]))
\* C13 (amended): as above, but a list or mapping is folded element by
\* element whatever it holds: an element that is no literal becomes its
\* source text inside the folded list or mapping.
C13_CallDecomposed ==
    parsed_step # PyNone =>
        /\ PositionalAsText
        /\ \A i \in DOMAIN call_node.keywords :
              LET kw == call_node.keywords[i]
              IN  parsed_step.config[kw[1]] = Folded(kw[2])
\* a call with a constant positional argument, a folded constant keyword and
\* a keyword list holding a name
C13_Witness ==
    /\ parsed_step # PyNone
    /\ \E i \in DOMAIN call_node.args :
          call_node.args[i] = Constant(1) /\ parsed_step.inputs[i] = "1"
    /\ \E i, j \in DOMAIN call_node.keywords :
          /\ call_node.keywords[i][2] = Constant(2)
          /\ parsed_step.config[call_node.keywords[i][1]] = PyInt(2)
          /\ call_node.keywords[j][2] = List(<< Name("a") >>)
          /\ parsed_step.config[call_node.keywords[j][1]] = PyList(<< PyStr("a") >>)

\* C15: once parse() has returned a WorkflowDef, no later operation on the
\* parser that produced it (visiting further statements, parse() again)
\* changes the step list of its body.
C15_ReturnedWorkflowImmutable ==
    [][workflow_def.type = "WorkflowDef" => WorkflowBody' = WorkflowBody]_vars

\* C16: when visit_If creates the parser of the then body (and of the else
\* body), that parser starts with an empty step sequence, with producer
\* bindings equal to the parent's at that point, with the parent's
\* predicate registry and with the parent's counter value.
ChildParserCreated ==
    op = "visit_If" \/ (op = "visit_If.then" /\ node.orelse)
C16_ChildStartsFromParent ==
    ChildParserCreated =>
        /\ Top.steps = << >>
        /\ Top.var_to_step = Parent.var_to_step
        /\ Top.predicates = Parent.predicates
        /\ Top.predicate_counter = Parent.predicate_counter

\* C17: every parser's step sequence only grows at its end (the sequence
\* before a step is a prefix of the sequence after it, for every parser
\* that outlives the step), and a single-call assignment to a name already
\* bound replaces exactly that name's entry of var_to_step by the new
\* callee.
IsPrefix(s, t) == Len(s) <= Len(t) /\ SubSeq(t, 1, Len(s)) = s
ChildParserDone == {"visit_If.then", "visit_If.else", "visit_For.body"}
C17_StepsAppendOnly ==
    [][/\ \A k \in 1..(IF op' \in ChildParserDone THEN Len(stack) - 1 ELSE Len(stack)) :
             IsPrefix(stack[k].steps, stack'[k].steps)
       /\ (/\ op' = "visit_Assign"
           /\ node'.value.kind = "Call"
           /\ node'.target.kind = "Name"
           /\ node'.target.id \in DOMAIN Top.var_to_step)
          => /\ DOMAIN Top'.var_to_step = DOMAIN Top.var_to_step
             /\ \A v \in DOMAIN Top.var_to_step :
                   Top'.var_to_step[v] =
                       IF v = node'.target.id THEN _get_func_name(node'.value.func)
                       ELSE Top.var_to_step[v]]_vars
\* a name assigned twice from different callees: both Steps stay, and the
\* binding names the second
C17_Witness ==
    /\ op = "visit_Assign"
    /\ \E i, j \in DOMAIN Top.steps :
          /\ i < j /\ j = Len(Top.steps)
          /\ Top.steps[i].type = "Step" /\ Top.steps[j].type = "Step"
          /\ Top.steps[i].output = Top.steps[j].output
          /\ Top.steps[i].name # Top.steps[j].name
          /\ Top.var_to_step[Top.steps[j].output] = Top.steps[j].name

\* C18: in a finished workflow without loops, the Condition nodes taken in
\* depth-first source order (an if, then its then body, then its else
\* body, then the statements after it) carry pred_0, pred_1, ... in that
\* order, and the top-level counter is the number of if statements.
IsCondition(n) == n.type = "Condition"
IsLoop(n) == n.type = "Loop"
Conditions == SelectSeq(WorkflowNodes, IsCondition)
NoLoops == Len(SelectSeq(WorkflowNodes, IsLoop)) = 0
C18_IdsInDepthFirstOrder ==
    (status = "done" /\ NoLoops) =>
        /\ \A i \in DOMAIN Conditions :
              Conditions[i].predicate_id = "pred_" \o ToString(i - 1)
        /\ stack[1].predicate_counter = Len(Conditions)
\* an if holding an if in its then body and another in its else body
C18_Witness ==
    /\ status = "done" /\ NoLoops
    /\ Len(Conditions) = 3
    /\ Len(Conditions[1].then_branch.steps) = 1
    /\ Conditions[1].else_branch.type = "Sequence"
    /\ Conditions[1].else_branch.steps = << Conditions[3] >>
    /\ Conditions[3].predicate_id = "pred_2"
====
